---- MODULE Spec2Model ----
(***************************************************************************)
(* Habit tracker Telegram bot: the daily reminder cycle, the weekly        *)
(* summary cycle, the interactive response handlers and the store tables   *)
(* they share (src/src/bot/handlers.ts, src/src/services/scheduler.ts,     *)
(* src/src/database/queries.ts, src/unnamed/part_000).                     *)
(*                                                                         *)
(* Calendar dates are day numbers; day 0 is a Sunday.  Instants (JS Date   *)
(* values) are minutes counted on the wall clock of TIMEZONE from 00:00 of *)
(* day 0.  Every `await` of the two cron callbacks and of the two          *)
(* response handlers is a separate step, so the other processes interleave *)
(* between them.  grammY's bot.start() handles one update at a time, so at *)
(* most one interactive handler is in flight.                              *)
(***************************************************************************)
EXTENDS Integers, Sequences, FiniteSets, TLC

VARIABLES
    now,               \* current calendar date in TIMEZONE
    users,             \* table users
    habits,            \* table habits
    habit_entries,     \* table habit_entries
    notifications,     \* table notifications
    weekly_summaries,  \* table weekly_summaries
    session,           \* session[chat].awaitingHabitName
    reminders,         \* reminder messages handed to the gateway, per (chat, date)
    daily,             \* the running sendDailyNotifications callback
    weekly,            \* the running sendWeeklySummaries callback
    handler,           \* the update handler in flight
    dailyRuns,         \* number of daily runs started
    weeklyRuns,        \* number of weekly runs started
    responses,         \* number of button responses handled
    agg,               \* input/output of a stand-alone aggregation
    cron               \* the process and its two CronJob timers

vars == <<now, users, habits, habit_entries, notifications,
          weekly_summaries, session, reminders, daily, weekly,
          handler, dailyRuns, weeklyRuns, responses, agg, cron>>

----------------------------------------------------------------------------
(* Bounds of the model *)

NumChats == 1
MaxHabits == 2
MaxDay == 1
MaxDailyRuns == 2
MaxWeeklyRuns == 2
MaxResponses == 2
MaxK == 32
NumBatchUsers == 2
MaxCronDay == 2
SumWeek == 5
MaxRate == 100
MaxMessages == 4
MaxConcurrent == 2

Chats == 1..NumChats
BatchChats == 1..NumBatchUsers
AllChats == Chats \cup BatchChats
Dates == 0..MaxDay

(* Program constants *)

TzOffsetMinutes == 330
StreakHorizon == 30
DaysPerWeek == 7
MinutesPerDay == 24 * 60
HoursPerDay == MinutesPerDay \div 60
DailyHour == 20
WeeklyHour == 10
WeeklyDay == 0
MaxNameLength == 100

CronDays == 0..MaxCronDay
CronWeeks == 0..(MaxCronDay \div DaysPerWeek)

----------------------------------------------------------------------------
(* Dates and their conversions *)

DayOfWeek(d) == d % DaysPerWeek

LocalMidnight(d) == d * MinutesPerDay

\* moment().tz(TIMEZONE).startOf('week').toDate(): Sunday 00:00 of TIMEZONE
StartOfWeek(d) == LocalMidnight(d - DayOfWeek(d))

\* moment().tz(TIMEZONE).endOf('week').toDate(): Saturday 23:59 of TIMEZONE
EndOfWeek(d) == LocalMidnight(d - DayOfWeek(d) + 6) + MinutesPerDay - 1

\* moment().tz(TIMEZONE).startOf('isoWeek').toDate(): Monday 00:00 of TIMEZONE
StartOfIsoWeek(d) == LocalMidnight(d - ((d + 6) % DaysPerWeek))

\* moment().tz(TIMEZONE).endOf('isoWeek').toDate(): Sunday 23:59 of TIMEZONE
EndOfIsoWeek(d) == LocalMidnight(d - ((d + 6) % DaysPerWeek) + 6) + MinutesPerDay - 1

\* new Date('YYYY-MM-DD'): midnight UTC of that date
NewDate(d) == LocalMidnight(d) + TzOffsetMinutes

\* node-pg writes a Date parameter in the zone of the process; a DATE
\* column (or a comparison with one) keeps the calendar date of that text
PgDate(t, off) == (t - TzOffsetMinutes + off) \div MinutesPerDay

\* node-pg reads a DATE column as midnight in the zone of the process
ParsePgDate(d, off) == LocalMidnight(d) + TzOffsetMinutes - off

\* moment(date).format('YYYY-MM-DD'): the calendar date in the process zone
MomentFormatLocal(t, off) == (t - TzOffsetMinutes + off) \div MinutesPerDay

\* The zone of the Node process: UTC in the container (the Dockerfile sets no
\* TZ), or the zone of TIMEZONE on a host configured for it
ProcessZones == {0, TzOffsetMinutes}

\* the DATE the store keeps for todayDate = new Date(today)
StoredDates(d) == {PgDate(NewDate(d), off) : off \in ProcessZones}

----------------------------------------------------------------------------
(* Helpers on sets and sequences *)

Min(a, b) == IF a <= b THEN a ELSE b

RECURSIVE SortedSeq(_)
SortedSeq(S) ==
    IF S = {} THEN <<>>
    ELSE LET m == CHOOSE x \in S : \A y \in S : x <= y
         IN <<m>> \o SortedSeq(S \ {m})

Orderings(S) ==
    {q \in [1..Cardinality(S) -> S] : \A i, j \in 1..Cardinality(S) : i # j => q[i] # q[j]}

----------------------------------------------------------------------------
(* UserQueries *)

NoUser == [id |-> 0, telegram_id |-> 0, is_active |-> FALSE, notifications_enabled |-> FALSE]

CreateUser(tbl, tg) ==
    tbl \cup {[id |-> Cardinality(tbl) + 1, telegram_id |-> tg,
               is_active |-> TRUE, notifications_enabled |-> TRUE]}

InsertUserNoConstraint(tbl, tg) == [ok |-> TRUE, rows |-> CreateUser(tbl, tg)]

\* the INSERT of createUser against telegram_id BIGINT UNIQUE NOT NULL: a
\* second row for the same telegram_id is refused and the statement throws
InsertUser(tbl, tg) ==
    IF \E u \in tbl : u.telegram_id = tg
    THEN [ok |-> FALSE, rows |-> tbl]
    ELSE [ok |-> TRUE, rows |-> CreateUser(tbl, tg)]

GetUserByTelegramId(tbl, tg) ==
    IF \E u \in tbl : u.telegram_id = tg
    THEN CHOOSE u \in tbl : u.telegram_id = tg
    ELSE NoUser

UpdateUserNotifications(tbl, tg, enabled) ==
    {IF u.telegram_id = tg THEN [u EXCEPT !.notifications_enabled = enabled] ELSE u : u \in tbl}

GetAllActiveUsers(tbl) == {u \in tbl : u.is_active /\ u.notifications_enabled}

(* HabitQueries *)

CreateHabit(tbl, uid) ==
    tbl \cup {[id |-> Cardinality(tbl) + 1, user_id |-> uid, is_active |-> TRUE]}

GetUserHabits(tbl, uid) == {h \in tbl : h.user_id = uid /\ h.is_active}

DeleteHabitHard(tbl, hid, uid) ==
    {h \in tbl : ~(h.id = hid /\ h.user_id = uid)}

\* UPDATE habits SET is_active = false WHERE id = $1 AND user_id = $2
DeleteHabit(tbl, hid, uid) ==
    {IF h.id = hid /\ h.user_id = uid THEN [h EXCEPT !.is_active = FALSE] ELSE h : h \in tbl}

GetHabitById(tbl, hid) == {h \in tbl : h.id = hid /\ h.is_active}

(* HabitEntryQueries *)

RecordHabitEntryKeepFirst(tbl, hid, d, completed) ==
    IF \E e \in tbl : e.habit_id = hid /\ e.date = d
    THEN tbl
    ELSE tbl \cup {[habit_id |-> hid, date |-> d, completed |-> completed]}

RecordHabitEntryOnlyYes(tbl, hid, d, completed) ==
    IF completed
    THEN {e \in tbl : ~(e.habit_id = hid /\ e.date = d)}
             \cup {[habit_id |-> hid, date |-> d, completed |-> completed]}
    ELSE tbl

\* INSERT ... ON CONFLICT (habit_id, date) DO UPDATE SET completed = $3
RecordHabitEntry(tbl, hid, d, completed) ==
    IF \E e \in tbl : e.habit_id = hid /\ e.date = d
    THEN {IF e.habit_id = hid /\ e.date = d THEN [e EXCEPT !.completed = completed] ELSE e : e \in tbl}
    ELSE tbl \cup {[habit_id |-> hid, date |-> d, completed |-> completed]}

GetHabitEntriesForWeek(tbl, hid, weekStart, weekEnd, off) ==
    {e \in tbl : e.habit_id = hid /\ e.date >= PgDate(weekStart, off) /\ e.date <= PgDate(weekEnd, off)}

HasUserCheckedInTodayAll(entries, habitTbl, uid, d) ==
    \A h \in habitTbl : (h.user_id = uid /\ h.is_active) =>
        \E e \in entries : e.habit_id = h.id /\ e.date = d

\* COUNT(*) of habit_entries JOIN habits ... WHERE user, date, is_active  > 0
HasUserCheckedInToday(entries, habitTbl, uid, d) ==
    Cardinality({<<e, h>> \in entries \X habitTbl :
                    e.habit_id = h.id /\ h.user_id = uid /\ e.date = d /\ h.is_active}) > 0

(* NotificationQueries *)

CreateNotificationInsert(tbl, uid, d) ==
    tbl \cup {[user_id |-> uid, date |-> d, sent |-> FALSE, responded |-> FALSE]}

CreateNotificationResets(tbl, uid, d) ==
    {n \in tbl : ~(n.user_id = uid /\ n.date = d)}
        \cup {[user_id |-> uid, date |-> d, sent |-> FALSE, responded |-> FALSE]}

\* INSERT ... ON CONFLICT (user_id, date) DO UPDATE SET created_at = now
CreateNotification(tbl, uid, d) ==
    IF \E n \in tbl : n.user_id = uid /\ n.date = d
    THEN tbl
    ELSE tbl \cup {[user_id |-> uid, date |-> d, sent |-> FALSE, responded |-> FALSE]}

MarkNotificationSent(tbl, uid, d) ==
    {IF n.user_id = uid /\ n.date = d THEN [n EXCEPT !.sent = TRUE] ELSE n : n \in tbl}

MarkNotificationRespondedUpsert(tbl, uid, d) ==
    IF \E n \in tbl : n.user_id = uid /\ n.date = d
    THEN {IF n.user_id = uid /\ n.date = d THEN [n EXCEPT !.responded = TRUE] ELSE n : n \in tbl}
    ELSE tbl \cup {[user_id |-> uid, date |-> d, sent |-> FALSE, responded |-> TRUE]}

\* UPDATE notifications SET responded = true WHERE user_id = $1 AND date = $2
MarkNotificationResponded(tbl, uid, d) ==
    {IF n.user_id = uid /\ n.date = d THEN [n EXCEPT !.responded = TRUE] ELSE n : n \in tbl}

(* WeeklySummaryQueries *)

CreateWeeklySummaryKeepFirst(tbl, uid, weekStart, weekEnd, data, off) ==
    IF \E w \in tbl : w.user_id = uid /\ w.week_start = PgDate(weekStart, off)
    THEN tbl
    ELSE tbl \cup {[user_id |-> uid, week_start |-> PgDate(weekStart, off),
                    week_end |-> PgDate(weekEnd, off), summary_data |-> data]}

\* INSERT ... ON CONFLICT (user_id, week_start) DO UPDATE SET summary_data = $4
CreateWeeklySummary(tbl, uid, weekStart, weekEnd, data, off) ==
    IF \E w \in tbl : w.user_id = uid /\ w.week_start = PgDate(weekStart, off)
    THEN {IF w.user_id = uid /\ w.week_start = PgDate(weekStart, off)
          THEN [w EXCEPT !.summary_data = data] ELSE w : w \in tbl}
    ELSE tbl \cup {[user_id |-> uid, week_start |-> PgDate(weekStart, off),
                    week_end |-> PgDate(weekEnd, off), summary_data |-> data]}

----------------------------------------------------------------------------
(* generateWeeklySummary: the body of its per-habit loop *)

\* entries.find(entry => moment(entry.date).format('YYYY-MM-DD') === dateStr)
FindDayEntry(entries, d, off) ==
    {e \in entries : MomentFormatLocal(ParsePgDate(e.date, off), off) = d}

RECURSIVE StreakFrom(_, _, _, _)
StreakFrom(entries, checkDate, i, off) ==
    IF i >= StreakHorizon THEN 0
    ELSE LET found == FindDayEntry(entries, checkDate, off)
         IN IF found # {} /\ (CHOOSE e \in found : TRUE).completed
            THEN 1 + StreakFrom(entries, checkDate - 1, i + 1, off)
            ELSE 0

\* a percentage kept exact: num / den, 0 when den = 0 is decided by the caller
Percent(part, whole) == [num |-> part * 100, den |-> whole]

\* rate >= p
AtLeast(rate, p) == rate.num >= p * rate.den

HabitSummaryFixedDenominatorObserved(tbl, hid, weekStart, weekEnd, today, off) ==
    LET entries == GetHabitEntriesForWeek(tbl, hid, weekStart, weekEnd, off)
    IN [habit_id |-> hid,
        completedDays |-> Cardinality({e \in entries : e.completed}),
        totalDays |-> Cardinality(entries),
        completionRate |-> Percent(Cardinality({e \in entries : e.completed}),
                                   Cardinality(entries)),
        streak |-> StreakFrom(entries, today, 0, off)]

HabitSummaryStreakSkipsGaps(tbl, hid, weekStart, weekEnd, today, off) ==
    LET entries == GetHabitEntriesForWeek(tbl, hid, weekStart, weekEnd, off)
    IN [habit_id |-> hid,
        completedDays |-> Cardinality({e \in entries : e.completed}),
        totalDays |-> DaysPerWeek,
        completionRate |-> Percent(Cardinality({e \in entries : e.completed}), DaysPerWeek),
        streak |-> Cardinality({e \in entries : e.completed})]

HabitSummary(tbl, hid, weekStart, weekEnd, today, off) ==
    LET entries == GetHabitEntriesForWeek(tbl, hid, weekStart, weekEnd, off)
    IN [habit_id |-> hid,
        completedDays |-> Cardinality({e \in entries : e.completed}),
        totalDays |-> DaysPerWeek,
        completionRate |-> Percent(Cardinality({e \in entries : e.completed}), DaysPerWeek),
        streak |-> StreakFrom(entries, today, 0, off)]

RECURSIVE SumField(_, _)
SumField(seq, f) ==
    IF seq = <<>> THEN 0 ELSE Head(seq)[f] + SumField(Tail(seq), f)

\* the WeeklySummaryData generateWeeklySummary returns for its habit summaries
WeeklySummaryData(habitSummaries) ==
    LET totalCompletions == SumField(habitSummaries, "completedDays")
        totalPossible == SumField(habitSummaries, "totalDays")
    IN [habits |-> habitSummaries,
        overallCompletion |-> IF totalPossible > 0
                              THEN Percent(totalCompletions, totalPossible)
                              ELSE Percent(0, 1),
        totalHabits |-> Len(habitSummaries)]

RECURSIVE HabitSummaries(_, _, _, _, _, _)
HabitSummaries(tbl, hids, weekStart, weekEnd, today, off) ==
    IF hids = <<>> THEN <<>>
    ELSE <<HabitSummary(tbl, Head(hids), weekStart, weekEnd, today, off)>>
             \o HabitSummaries(tbl, Tail(hids), weekStart, weekEnd, today, off)

\* generateWeeklySummary on a store nobody else writes meanwhile
GenerateWeeklySummary(habitTbl, tbl, uid, weekStart, weekEnd, today, off) ==
    LET hids == SortedSeq({h.id : h \in GetUserHabits(habitTbl, uid)})
    IN IF hids = <<>> THEN [null |-> TRUE]
       ELSE [null |-> FALSE,
             data |-> WeeklySummaryData(HabitSummaries(tbl, hids, weekStart, weekEnd,
                                                       today, off))]

\* getHabitEmoji: the band of a completion rate, 1 the highest
getHabitEmoji(completionRate) ==
    IF AtLeast(completionRate, 90) THEN 1
    ELSE IF AtLeast(completionRate, 70) THEN 2
    ELSE IF AtLeast(completionRate, 50) THEN 3
    ELSE IF AtLeast(completionRate, 30) THEN 4
    ELSE 5

----------------------------------------------------------------------------
(* handleSummary: the /summary command *)

\* Math.round(num / den) for num >= 0, den > 0
MathRound(num, den) == (2 * num + den) \div (2 * den)

\* getProgressBar: filled = Math.round(percentage / 10), empty = 10 - filled
getProgressBar(percentage) ==
    LET filled == MathRound(percentage.num, percentage.den * 10)
    IN [filled |-> filled, empty |-> 10 - filled]

\* the band handleSummary picks for a whole percentage, 1 the highest
statusEmoji(percentage) ==
    IF percentage >= 80 THEN 1
    ELSE IF percentage >= 60 THEN 2
    ELSE IF percentage >= 40 THEN 3
    ELSE 4

SummaryLineFixedSeven(tbl, hid, weekStart, weekEnd, off) ==
    LET entries == GetHabitEntriesForWeek(tbl, hid, weekStart, weekEnd, off)
        completedDays == Cardinality({e \in entries : e.completed})
    IN [habit_id |-> hid,
        completedDays |-> completedDays,
        totalDays |-> DaysPerWeek,
        percentage |-> MathRound(completedDays * 100, DaysPerWeek),
        statusEmoji |-> statusEmoji(MathRound(completedDays * 100, DaysPerWeek))]

\* the body of handleSummary's per-habit loop
SummaryLine(tbl, hid, weekStart, weekEnd, off) ==
    LET entries == GetHabitEntriesForWeek(tbl, hid, weekStart, weekEnd, off)
        completedDays == Cardinality({e \in entries : e.completed})
        totalDays == Cardinality(entries)
        percentage == IF totalDays > 0 THEN MathRound(completedDays * 100, totalDays) ELSE 0
    IN [habit_id |-> hid,
        completedDays |-> completedDays,
        totalDays |-> totalDays,
        percentage |-> percentage,
        statusEmoji |-> statusEmoji(percentage)]

RECURSIVE SummaryLines(_, _, _, _, _)
SummaryLines(tbl, hids, weekStart, weekEnd, off) ==
    IF hids = <<>> THEN <<>>
    ELSE <<SummaryLine(tbl, Head(hids), weekStart, weekEnd, off)>>
             \o SummaryLines(tbl, Tail(hids), weekStart, weekEnd, off)

\* what handleSummary replies for a registered user on a store nobody else
\* writes meanwhile; without habits the reply is that there are none yet
SummaryReply(habitTbl, tbl, uid, today, off) ==
    LET hids == SortedSeq({h.id : h \in GetUserHabits(habitTbl, uid)})
        lines == SummaryLines(tbl, hids, StartOfIsoWeek(today), EndOfIsoWeek(today), off)
        totalHabits == SumField(lines, "totalDays")
        totalCompleted == SumField(lines, "completedDays")
        overallPercentage == IF totalHabits > 0
                             THEN MathRound(totalCompleted * 100, totalHabits) ELSE 0
    IN IF hids = <<>> THEN [noHabits |-> TRUE]
       ELSE [noHabits |-> FALSE, habits |-> lines, totalHabits |-> totalHabits,
             totalCompleted |-> totalCompleted,
             overallPercentage |-> overallPercentage,
             overallBand |-> statusEmoji(overallPercentage)]

----------------------------------------------------------------------------
(* Initial state: empty tables, no callback running *)

DailyIdle ==
    [pc |-> "idle", queue |-> <<>>, tg |-> 0, uid |-> 0, habits |-> {},
     today |-> 0, outcome |-> "none", success |-> 0, errors |-> 0, failed |-> {}]

WeeklyIdle ==
    [pc |-> "idle", queue |-> <<>>, tg |-> 0, uid |-> 0, off |-> 0,
     weekStart |-> 0, weekEnd |-> 0, left |-> <<>>, acc |-> <<>>, outcome |-> "none",
     success |-> 0, errors |-> 0, replaced |-> FALSE]

HandlerIdle ==
    [pc |-> "idle", kind |-> "none", tg |-> 0, uid |-> 0, habitId |-> 0,
     completed |-> FALSE, today |-> 0, replaced |-> FALSE]

AggIdle == [done |-> FALSE, k |-> 0, before |-> "absent", off |-> 0, streak |-> 0]

\* the process as main() leaves it at the start of day 0: running, both
\* CronJob timers armed for their next occurrence
CronIdle ==
    [up |-> TRUE, hour |-> 0, dailyNext |-> 0, weeklyNext |-> 0,
     dailyFired |-> [d \in CronDays |-> 0], weeklyFired |-> [w \in CronWeeks |-> 0]]

Init ==
    /\ now = 0
    /\ users = {}
    /\ habits = {}
    /\ habit_entries = {}
    /\ notifications = {}
    /\ weekly_summaries = {}
    /\ session = [c \in AllChats |-> FALSE]
    /\ reminders = [k \in AllChats \X Dates |-> 0]
    /\ daily = DailyIdle
    /\ weekly = WeeklyIdle
    /\ handler = HandlerIdle
    /\ dailyRuns = 0
    /\ weeklyRuns = 0
    /\ responses = 0
    /\ agg = AggIdle
    /\ cron = CronIdle

Today == now

----------------------------------------------------------------------------
(* The clock *)

Tick ==
    /\ now < MaxDay
    /\ now' = now + 1
    /\ UNCHANGED <<cron, users, habits, habit_entries, notifications,
                   weekly_summaries, session, reminders, daily,
                   weekly, handler, dailyRuns, weeklyRuns, responses, agg>>

----------------------------------------------------------------------------
(* Commands and callbacks that finish without another writer in between *)

handleStart(tg) ==
    /\ handler.pc = "idle"
    /\ GetUserByTelegramId(users, tg) = NoUser
    /\ users' = CreateUser(users, tg)
    /\ UNCHANGED <<cron, now, habits, habit_entries, notifications,
                   weekly_summaries, session, reminders, daily,
                   weekly, handler, dailyRuns, weeklyRuns, responses, agg>>

\* /addhabit and the add_habit callback
handleAddHabit(tg) ==
    /\ handler.pc = "idle"
    /\ ~session[tg]
    /\ session' = [session EXCEPT ![tg] = TRUE]
    /\ UNCHANGED <<cron, now, users, habits, habit_entries, notifications,
                   weekly_summaries, reminders, daily, weekly,
                   handler, dailyRuns, weeklyRuns, responses, agg>>

handleNewHabitName(tg) ==
    LET user == GetUserByTelegramId(users, tg)
    IN IF user = NoUser
       THEN UNCHANGED <<habits, session>>
       ELSE /\ habits' = CreateHabit(habits, user.id)
            /\ session' = [session EXCEPT ![tg] = FALSE]

handleTextMessage(tg, text) ==
    /\ handler.pc = "idle"
    /\ session[tg]
    /\ IF text = "/cancel"
       THEN /\ session' = [session EXCEPT ![tg] = FALSE]
            /\ UNCHANGED habits
       ELSE /\ Cardinality(habits) < MaxHabits
            /\ GetUserByTelegramId(users, tg) # NoUser
            /\ handleNewHabitName(tg)
    /\ UNCHANGED <<cron, now, users, habit_entries, notifications,
                   weekly_summaries, reminders, daily, weekly,
                   handler, dailyRuns, weeklyRuns, responses, agg>>

handleDeleteSpecificHabit(tg, hid) ==
    LET user == GetUserByTelegramId(users, tg)
    IN /\ handler.pc = "idle"
       /\ user # NoUser
       /\ \E h \in habits : h.id = hid /\ h.user_id = user.id
       /\ GetHabitById(habits, hid) # {}
       /\ habits' = DeleteHabit(habits, hid, user.id)
       /\ UNCHANGED <<cron, now, users, habit_entries, notifications,
                      weekly_summaries, session, reminders, daily,
                      weekly, handler, dailyRuns, weeklyRuns, responses, agg>>

handleToggleNotifications(tg) ==
    LET user == GetUserByTelegramId(users, tg)
    IN /\ handler.pc = "idle"
       /\ user # NoUser
       /\ users' = UpdateUserNotifications(users, tg, ~user.notifications_enabled)
       /\ UNCHANGED <<cron, now, habits, habit_entries, notifications,
                      weekly_summaries, session, reminders, daily,
                      weekly, handler, dailyRuns, weeklyRuns, responses, agg>>

----------------------------------------------------------------------------
(* Response recording: handleHabitResponse and handleCheckinHabitResponse *)

BeginResponse(kind, tg, hid, completed) ==
    LET user == GetUserByTelegramId(users, tg)
    IN /\ handler.pc = "idle"
       /\ user # NoUser
       /\ handler' = [pc |-> "record", kind |-> kind, tg |-> tg, uid |-> user.id,
                      habitId |-> hid, completed |-> completed, today |-> Today,
                      replaced |-> FALSE]
       /\ responses < MaxResponses
       /\ responses' = responses + 1
       /\ UNCHANGED <<cron, now, users, habits, habit_entries,
                      notifications, weekly_summaries, session, reminders, daily, weekly, dailyRuns, weeklyRuns, agg>>

\* a habit_<id>_yes/no button of a delivered reminder is pressed; the buttons
\* of a reminder stay in the chat, whatever happens to the habit afterwards
handleHabitResponse(tg, hid, completed) ==
    /\ \E d \in Dates : reminders[<<tg, d>>] > 0
    /\ \E h \in habits : h.id = hid /\ h.user_id = GetUserByTelegramId(users, tg).id
    /\ BeginResponse("habit", tg, hid, completed)

\* a checkin_habit_<id>_yes/no button is pressed; /checkin lists every
\* active habit without an entry for the day, so each habit of the user has
\* had such a button since it was created
handleCheckinHabitResponse(tg, hid, completed) ==
    /\ \E h \in habits : h.id = hid /\ h.user_id = GetUserByTelegramId(users, tg).id
    /\ BeginResponse("checkin_habit", tg, hid, completed)

ResponseRecord ==
    /\ handler.pc = "record"
    /\ \E date \in StoredDates(handler.today) :
          /\ habit_entries' = RecordHabitEntry(habit_entries, handler.habitId, date,
                                               handler.completed)
          /\ handler' = [handler EXCEPT !.pc = "mark",
                            !.replaced = \E e \in habit_entries :
                                            /\ e.habit_id = handler.habitId
                                            /\ e.date = date
                                            /\ e.completed # handler.completed]
    /\ UNCHANGED <<cron, now, users, habits, notifications,
                   weekly_summaries, session, reminders, daily,
                   weekly, dailyRuns, weeklyRuns, responses, agg>>

ResponseMark ==
    /\ handler.pc = "mark"
    /\ \E date \in StoredDates(handler.today) :
          notifications' = MarkNotificationResponded(notifications, handler.uid, date)
    /\ handler' = [handler EXCEPT !.pc = "reply", !.replaced = FALSE]
    /\ UNCHANGED <<cron, now, users, habits, habit_entries,
                   weekly_summaries, session, reminders, daily,
                   weekly, dailyRuns, weeklyRuns, responses, agg>>

\* the closing paragraph handleCheckinHabitResponse picks for its reply
CheckinReplyMessage ==
    IF \E date \in StoredDates(handler.today) :
          HasUserCheckedInToday(habit_entries, habits, handler.uid, date)
    THEN "checkedInAll"
    ELSE "continueRemaining"

\* getHabitById, hasUserCheckedInToday (check-in flow) and editMessageText
ResponseReply ==
    /\ handler.pc = "reply"
    /\ handler' = HandlerIdle
    /\ UNCHANGED <<cron, now, users, habits, habit_entries,
                   notifications, weekly_summaries, session, reminders, daily, weekly, dailyRuns, weeklyRuns, responses, agg>>

ResponseFailSwallowed ==
    /\ handler.pc \in {"record", "mark", "reply"}
    /\ handler' = IF handler.pc = "record" THEN [handler EXCEPT !.pc = "mark"] ELSE HandlerIdle
    /\ UNCHANGED <<cron, now, users, habits, habit_entries,
                   notifications, weekly_summaries, session, reminders, daily, weekly, dailyRuns, weeklyRuns, responses, agg>>

\* a store or gateway call of the handler throws
ResponseFail ==
    /\ handler.pc \in {"record", "mark", "reply"}
    /\ handler' = HandlerIdle
    /\ UNCHANGED <<cron, now, users, habits, habit_entries,
                   notifications, weekly_summaries, session, reminders, daily, weekly, dailyRuns, weeklyRuns, responses, agg>>

----------------------------------------------------------------------------
(* Daily cycle: sendDailyNotifications and, per listed user, sendDailyCheckIn *)

\* the dispatch for daily.tg has returned: successCount++ and the pacing delay
DispatchReturn(outcome) ==
    [daily EXCEPT !.pc = "pace", !.uid = 0, !.habits = {}, !.today = 0,
                  !.outcome = outcome, !.success = @ + 1,
                  !.failed = IF outcome = "error" THEN @ \cup {daily.tg} ELSE @]

\* the cron callback fires: getAllActiveUsers, in the order the store returns
StartDailyRun ==
    /\ daily.pc = "idle"
    /\ dailyRuns < MaxDailyRuns
    /\ dailyRuns' = dailyRuns + 1
    /\ \E q \in Orderings({u.telegram_id : u \in GetAllActiveUsers(users)}) :
          daily' = IF q = <<>> THEN DailyIdle
                   ELSE [DailyIdle EXCEPT !.pc = "getUser", !.tg = Head(q), !.queue = Tail(q)]
    /\ UNCHANGED <<cron, now, users, habits, habit_entries,
                   notifications, weekly_summaries, session, reminders, weekly, handler, weeklyRuns, responses, agg>>

\* getAllActiveUsers throws: the catch of sendDailyNotifications logs it and
\* the run is over with nobody dispatched
DailyListFail ==
    /\ daily.pc = "idle"
    /\ dailyRuns < MaxDailyRuns
    /\ dailyRuns' = dailyRuns + 1
    /\ daily' = DailyIdle
    /\ UNCHANGED <<cron, now, users, habits, habit_entries,
                   notifications, weekly_summaries, session, reminders, weekly, handler, weeklyRuns, responses, agg>>

\* if (!user || !user.notifications_enabled) return
PassesUserCheckAnyUser(user) == user # NoUser

PassesUserCheck(user) == user # NoUser /\ user.notifications_enabled

DispatchGetUserTrustsList ==
    LET user == GetUserByTelegramId(users, daily.tg)
    IN /\ daily.pc = "getUser"
       /\ daily' = [daily EXCEPT !.pc = "getHabits", !.uid = user.id]
       /\ UNCHANGED <<cron, now, users, habits, habit_entries,
                      notifications, weekly_summaries, session, reminders, weekly, handler, dailyRuns, weeklyRuns, responses, agg>>

DispatchGetUser ==
    LET user == GetUserByTelegramId(users, daily.tg)
    IN /\ daily.pc = "getUser"
       /\ daily' = IF PassesUserCheck(user)
                   THEN [daily EXCEPT !.pc = "getHabits", !.uid = user.id]
                   ELSE DispatchReturn("skipped")
       /\ UNCHANGED <<cron, now, users, habits, habit_entries,
                      notifications, weekly_summaries, session, reminders, weekly, handler, dailyRuns, weeklyRuns, responses, agg>>

DispatchGetHabits ==
    LET hs == {h.id : h \in GetUserHabits(habits, daily.uid)}
    IN /\ daily.pc = "getHabits"
       /\ daily' = IF hs = {}
                   THEN DispatchReturn("skipped")
                   ELSE [daily EXCEPT !.pc = "check", !.habits = hs]
       /\ UNCHANGED <<cron, now, users, habits, habit_entries,
                      notifications, weekly_summaries, session, reminders, weekly, handler, dailyRuns, weeklyRuns, responses, agg>>

DispatchCheck ==
    /\ daily.pc = "check"
    /\ \E date \in StoredDates(Today) :
          daily' = IF HasUserCheckedInToday(habit_entries, habits, daily.uid, date)
                   THEN DispatchReturn("suppressed")
                   ELSE [daily EXCEPT !.pc = "create", !.today = Today]
    /\ UNCHANGED <<cron, now, users, habits, habit_entries,
                   notifications, weekly_summaries, session, reminders, weekly, handler, dailyRuns, weeklyRuns, responses, agg>>

DispatchCreate ==
    /\ daily.pc = "create"
    /\ \E date \in StoredDates(daily.today) :
          notifications' = CreateNotification(notifications, daily.uid, date)
    /\ daily' = [daily EXCEPT !.pc = "markSent"]
    /\ UNCHANGED <<cron, now, users, habits, habit_entries,
                   weekly_summaries, session, reminders, weekly,
                   handler, dailyRuns, weeklyRuns, responses, agg>>

DispatchMarkSentSkipped ==
    /\ daily.pc = "markSent"
    /\ daily' = [daily EXCEPT !.pc = "send"]
    /\ UNCHANGED <<cron, now, users, habits, habit_entries,
                   notifications, weekly_summaries, session, reminders, weekly, handler, dailyRuns, weeklyRuns, responses, agg>>

DispatchMarkSent ==
    /\ daily.pc = "markSent"
    /\ \E date \in StoredDates(daily.today) :
          notifications' = MarkNotificationSent(notifications, daily.uid, date)
    /\ daily' = [daily EXCEPT !.pc = "send"]
    /\ UNCHANGED <<cron, now, users, habits, habit_entries,
                   weekly_summaries, session, reminders, weekly,
                   handler, dailyRuns, weeklyRuns, responses, agg>>

DispatchSendStartsNext ==
    /\ daily.pc = "send"
    /\ reminders' = [reminders EXCEPT ![<<daily.tg, daily.today>>] = @ + 1]
    /\ daily' = IF daily.queue = <<>> THEN DispatchReturn("sent")
                ELSE [DispatchReturn("sent") EXCEPT !.pc = "getUser", !.tg = Head(daily.queue),
                                                    !.queue = Tail(daily.queue)]
    /\ UNCHANGED <<cron, now, users, habits, habit_entries,
                   notifications, weekly_summaries, session, weekly, handler,
                   dailyRuns, weeklyRuns, responses, agg>>

\* bot.api.sendMessage delivers the reminder with a Yes and a No button per habit
DispatchSend ==
    /\ daily.pc = "send"
    /\ reminders' = [reminders EXCEPT ![<<daily.tg, daily.today>>] = @ + 1]
    /\ daily' = DispatchReturn("sent")
    /\ UNCHANGED <<cron, now, users, habits, habit_entries,
                   notifications, weekly_summaries, session, weekly, handler,
                   dailyRuns, weeklyRuns, responses, agg>>

DispatchFailRetries ==
    /\ daily.pc \in {"getUser", "getHabits", "check", "create", "markSent", "send"}
    /\ daily' = [daily EXCEPT !.pc = "getUser"]
    /\ UNCHANGED <<cron, now, users, habits, habit_entries,
                   notifications, weekly_summaries, session, reminders, weekly, handler, dailyRuns, weeklyRuns, responses, agg>>

DispatchFailAborts ==
    /\ daily.pc \in {"getUser", "getHabits", "check", "create", "markSent", "send"}
    /\ daily' = DailyIdle
    /\ UNCHANGED <<cron, now, users, habits, habit_entries,
                   notifications, weekly_summaries, session, reminders, weekly, handler, dailyRuns, weeklyRuns, responses, agg>>

\* a store or gateway call of sendDailyCheckIn throws; its catch logs it
DispatchFail ==
    /\ daily.pc \in {"getUser", "getHabits", "check", "create", "markSent", "send"}
    /\ daily' = DispatchReturn("error")
    /\ UNCHANGED <<cron, now, users, habits, habit_entries,
                   notifications, weekly_summaries, session, reminders, weekly, handler, dailyRuns, weeklyRuns, responses, agg>>

DailyPaceRetriesFailed ==
    /\ daily.pc = "pace"
    /\ daily' = IF daily.outcome = "error"
                THEN [daily EXCEPT !.pc = "getUser", !.outcome = "none"]
                ELSE IF daily.queue = <<>> THEN DailyIdle
                ELSE [daily EXCEPT !.pc = "getUser", !.tg = Head(daily.queue),
                                   !.queue = Tail(daily.queue), !.outcome = "none"]
    /\ UNCHANGED <<cron, now, users, habits, habit_entries,
                   notifications, weekly_summaries, session, reminders, weekly, handler, dailyRuns, weeklyRuns, responses, agg>>

\* the pacing delay elapses: next listed user, or the run is complete
DailyPace ==
    /\ daily.pc = "pace"
    /\ daily' = IF daily.queue = <<>> THEN DailyIdle
                ELSE [daily EXCEPT !.pc = "getUser", !.tg = Head(daily.queue),
                                   !.queue = Tail(daily.queue), !.outcome = "none"]
    /\ UNCHANGED <<cron, now, users, habits, habit_entries,
                   notifications, weekly_summaries, session, reminders, weekly, handler, dailyRuns, weeklyRuns, responses, agg>>

----------------------------------------------------------------------------
(* Weekly cycle: sendWeeklySummaries and, per listed user, generateWeeklySummary *)

WeeklyReturn(outcome, ok, failed) ==
    [weekly EXCEPT !.pc = "pace", !.uid = 0, !.left = <<>>, !.acc = <<>>, !.replaced = FALSE,
                   !.outcome = outcome, !.success = @ + ok, !.errors = @ + failed]

\* the cron callback fires on Sunday
StartWeeklyRun ==
    /\ weekly.pc = "idle"
    /\ DayOfWeek(now) = 0
    /\ weeklyRuns < MaxWeeklyRuns
    /\ weeklyRuns' = weeklyRuns + 1
    /\ \E q \in Orderings({u.telegram_id : u \in GetAllActiveUsers(users)}),
          off \in (IF weeklyRuns = 0 THEN ProcessZones ELSE {weekly.off}) :
          weekly' = IF q = <<>> THEN [WeeklyIdle EXCEPT !.off = off]
                    ELSE [WeeklyIdle EXCEPT !.pc = "genHabits", !.tg = Head(q),
                             !.off = off,
                             !.uid = GetUserByTelegramId(users, Head(q)).id,
                             !.queue = Tail(q),
                             !.weekStart = StartOfWeek(Today),
                             !.weekEnd = EndOfWeek(Today)]
    /\ UNCHANGED <<cron, now, users, habits, habit_entries,
                   notifications, weekly_summaries, session, reminders, daily, handler, dailyRuns, responses, agg>>

WeeklyGetHabits ==
    LET hs == {h.id : h \in GetUserHabits(habits, weekly.uid)}
    IN /\ weekly.pc = "genHabits"
       /\ weekly' = IF hs = {}
                    THEN WeeklyReturn("null", 0, 0)
                    ELSE [weekly EXCEPT !.pc = "genEntries", !.left = SortedSeq(hs)]
       /\ UNCHANGED <<cron, now, users, habits, habit_entries,
                      notifications, weekly_summaries, session, reminders, daily, handler, dailyRuns, weeklyRuns, responses, agg>>

WeeklyGenEntries ==
    /\ weekly.pc = "genEntries"
    /\ weekly' = [weekly EXCEPT
                    !.acc = Append(@, HabitSummary(habit_entries, Head(weekly.left),
                                                   weekly.weekStart, weekly.weekEnd,
                                                   Today, weekly.off)),
                    !.left = Tail(@),
                    !.pc = IF Tail(weekly.left) = <<>> THEN "createSummary" ELSE "genEntries"]
    /\ UNCHANGED <<cron, now, users, habits, habit_entries,
                   notifications, weekly_summaries, session, reminders, daily, handler, dailyRuns, weeklyRuns, responses, agg>>

\* a store call of generateWeeklySummary throws; its catch returns null
WeeklyGenerateFail ==
    /\ weekly.pc \in {"genHabits", "genEntries"}
    /\ weekly' = WeeklyReturn("null", 0, 0)
    /\ UNCHANGED <<cron, now, users, habits, habit_entries,
                   notifications, weekly_summaries, session, reminders, daily, handler, dailyRuns, weeklyRuns, responses, agg>>

WeeklyCreateSummary ==
    /\ weekly.pc = "createSummary"
    /\ weekly_summaries' = CreateWeeklySummary(weekly_summaries, weekly.uid,
                               weekly.weekStart, weekly.weekEnd,
                               WeeklySummaryData(weekly.acc), weekly.off)
    /\ weekly' = [weekly EXCEPT !.pc = "sendSummary",
                     !.replaced = \E w \in weekly_summaries :
                                     /\ w.user_id = weekly.uid
                                     /\ w.week_start = PgDate(weekly.weekStart, weekly.off)
                                     /\ w.summary_data # WeeklySummaryData(weekly.acc)]
    /\ UNCHANGED <<cron, now, users, habits, habit_entries,
                   notifications, session, reminders, daily, handler,
                   dailyRuns, weeklyRuns, responses, agg>>

WeeklyCreateFailStillSends ==
    /\ weekly.pc = "createSummary"
    /\ weekly' = [weekly EXCEPT !.pc = "sendSummary"]
    /\ UNCHANGED <<cron, now, users, habits, habit_entries,
                   notifications, weekly_summaries, session, reminders, daily, handler, dailyRuns, weeklyRuns, responses, agg>>

\* createWeeklySummary throws: the per-user catch counts the failure
WeeklyCreateFail ==
    /\ weekly.pc = "createSummary"
    /\ weekly' = WeeklyReturn("error", 0, 1)
    /\ UNCHANGED <<cron, now, users, habits, habit_entries,
                   notifications, weekly_summaries, session, reminders, daily, handler, dailyRuns, weeklyRuns, responses, agg>>

\* sendWeeklySummaryMessage: sent, or the gateway error is caught inside it
WeeklySendSummary ==
    /\ weekly.pc = "sendSummary"
    /\ \E o \in {"sent", "sendError"} : weekly' = WeeklyReturn(o, 1, 0)
    /\ UNCHANGED <<cron, now, users, habits, habit_entries,
                   notifications, weekly_summaries, session, reminders, daily, handler, dailyRuns, weeklyRuns, responses, agg>>

WeeklyPace ==
    /\ weekly.pc = "pace"
    /\ weekly' = IF weekly.queue = <<>> THEN [WeeklyIdle EXCEPT !.off = weekly.off]
                 ELSE [weekly EXCEPT !.pc = "genHabits", !.tg = Head(weekly.queue),
                          !.uid = GetUserByTelegramId(users, Head(weekly.queue)).id,
                          !.queue = Tail(weekly.queue), !.outcome = "none"]
    /\ UNCHANGED <<cron, now, users, habits, habit_entries,
                   notifications, weekly_summaries, session, reminders, daily, handler, dailyRuns, weeklyRuns, responses, agg>>

----------------------------------------------------------------------------
(* The program *)

Next ==
    \/ Tick
    \/ \E tg \in Chats : handleStart(tg)
    \/ \E tg \in Chats : handleAddHabit(tg)
    \/ \E tg \in Chats, text \in {"/cancel", "name"} : handleTextMessage(tg, text)
    \/ \E tg \in Chats, hid \in 1..MaxHabits : handleDeleteSpecificHabit(tg, hid)
    \/ \E tg \in Chats : handleToggleNotifications(tg)
    \/ \E tg \in Chats, hid \in 1..MaxHabits, c \in BOOLEAN : handleHabitResponse(tg, hid, c)
    \/ \E tg \in Chats, hid \in 1..MaxHabits, c \in BOOLEAN : handleCheckinHabitResponse(tg, hid, c)
    \/ ResponseRecord
    \/ ResponseMark
    \/ ResponseReply
    \/ ResponseFail
    \/ StartDailyRun
    \/ DispatchGetUser
    \/ DispatchGetHabits
    \/ DispatchCheck
    \/ DispatchCreate
    \/ DispatchMarkSent
    \/ DispatchSend
    \/ DispatchFail
    \/ DailyPace

Spec == Init /\ [][Next]_vars

\* every chat registered, every habit created and active, nothing recorded yet
InitPopulated ==
    /\ now = 0
    /\ users = {[id |-> c, telegram_id |-> c, is_active |-> TRUE,
                 notifications_enabled |-> TRUE] : c \in Chats}
    /\ habits = {[id |-> h, user_id |-> ((h - 1) % NumChats) + 1, is_active |-> TRUE] :
                    h \in 1..MaxHabits}
    /\ habit_entries = {}
    /\ notifications = {}
    /\ weekly_summaries = {}
    /\ session = [c \in AllChats |-> FALSE]
    /\ reminders = [k \in AllChats \X Dates |-> 0]
    /\ daily = DailyIdle
    /\ weekly = WeeklyIdle
    /\ handler = HandlerIdle
    /\ dailyRuns = 0
    /\ weeklyRuns = 0
    /\ responses = 0
    /\ agg = AggIdle
    /\ cron = CronIdle

NextAll ==
    \/ \E tg \in Chats, hid \in 1..MaxHabits, c \in BOOLEAN : handleHabitResponse(tg, hid, c)
    \/ \E tg \in Chats, hid \in 1..MaxHabits, c \in BOOLEAN : handleCheckinHabitResponse(tg, hid, c)
    \/ ResponseRecord
    \/ ResponseMark
    \/ ResponseReply
    \/ ResponseFail
    \/ StartDailyRun
    \/ DispatchGetUser
    \/ DispatchGetHabits
    \/ DispatchCheck
    \/ DispatchCreate
    \/ DispatchMarkSent
    \/ DispatchSend
    \/ DispatchFail
    \/ DailyPace
    \/ StartWeeklyRun
    \/ WeeklyGetHabits
    \/ WeeklyGenEntries
    \/ WeeklyGenerateFail
    \/ WeeklyCreateSummary
    \/ WeeklyCreateFail
    \/ WeeklySendSummary
    \/ WeeklyPace

SpecAll == InitPopulated /\ [][NextAll]_vars

----------------------------------------------------------------------------
(* The two cycles over several listed users: every user registered with    *)
(* notifications on, each with one active habit or none, no interactive    *)
(* update.                                                                 *)

InitBatch ==
    /\ now = 0
    /\ users = {[id |-> c, telegram_id |-> c, is_active |-> TRUE,
                 notifications_enabled |-> TRUE] : c \in BatchChats}
    /\ \E owners \in SUBSET BatchChats :
          habits = {[id |-> c, user_id |-> c, is_active |-> TRUE] : c \in owners}
    /\ habit_entries = {}
    /\ notifications = {}
    /\ weekly_summaries = {}
    /\ session = [c \in AllChats |-> FALSE]
    /\ reminders = [k \in AllChats \X Dates |-> 0]
    /\ daily = DailyIdle
    /\ weekly = WeeklyIdle
    /\ handler = HandlerIdle
    /\ dailyRuns = 0
    /\ weeklyRuns = 0
    /\ responses = 0
    /\ agg = AggIdle
    /\ cron = CronIdle

NextBatch ==
    \/ StartDailyRun
    \/ DispatchGetUser
    \/ DispatchGetHabits
    \/ DispatchCheck
    \/ DispatchCreate
    \/ DispatchMarkSent
    \/ DispatchSend
    \/ DispatchFail
    \/ DailyPace
    \/ StartWeeklyRun
    \/ WeeklyGetHabits
    \/ WeeklyGenEntries
    \/ WeeklyGenerateFail
    \/ WeeklyCreateSummary
    \/ WeeklyCreateFail
    \/ WeeklySendSummary
    \/ WeeklyPace

SpecBatch == InitBatch /\ [][NextBatch]_vars

\* the daily run alone: a step of a run in progress is an await of
\* sendDailyNotifications settling (a call returning or throwing, the
\* pacing timer elapsing)
DailyRunStep ==
    \/ DispatchGetUser
    \/ DispatchGetHabits
    \/ DispatchCheck
    \/ DispatchCreate
    \/ DispatchMarkSent
    \/ DispatchSend
    \/ DispatchFail
    \/ DailyPace

NextDailyRun ==
    \/ StartDailyRun
    \/ DailyListFail
    \/ DailyRunStep

\* every await of a run in progress settles
SpecDailyFair == InitBatch /\ [][NextDailyRun]_vars /\ WF_vars(DailyRunStep)

----------------------------------------------------------------------------
(* The aggregation on its own: one habit whose entries are completed on    *)
(* the k days ending at the reference date, with the day before those      *)
(* either absent or recorded as not completed; the reference date takes    *)
(* every position of a week.                                               *)

AggRefDates == {5 * DaysPerWeek + p : p \in 0..(DaysPerWeek - 1)}

AggEntries(ref, k, before) ==
    {[habit_id |-> 1, date |-> ref - i, completed |-> TRUE] : i \in 0..(k - 1)}
        \cup (IF before = "false"
              THEN {[habit_id |-> 1, date |-> ref - k, completed |-> FALSE]}
              ELSE {})

InitAgg ==
    /\ now \in AggRefDates
    /\ users = {[id |-> 1, telegram_id |-> 1, is_active |-> TRUE,
                 notifications_enabled |-> TRUE]}
    /\ habits = {[id |-> 1, user_id |-> 1, is_active |-> TRUE]}
    /\ \E k \in 0..MaxK, before \in {"absent", "false"}, off \in ProcessZones :
          /\ agg = [AggIdle EXCEPT !.k = k, !.before = before, !.off = off]
          /\ habit_entries = AggEntries(now, k, before)
    /\ notifications = {}
    /\ weekly_summaries = {}
    /\ session = [c \in AllChats |-> FALSE]
    /\ reminders = [k \in AllChats \X Dates |-> 0]
    /\ daily = DailyIdle
    /\ weekly = WeeklyIdle
    /\ handler = HandlerIdle
    /\ dailyRuns = 0
    /\ weeklyRuns = 0
    /\ responses = 0
    /\ cron = CronIdle

\* generateWeeklySummary(user, weekStart, weekEnd) as sendWeeklySummaries calls it
AggGenerate ==
    /\ ~agg.done
    /\ agg' = [agg EXCEPT !.done = TRUE,
                 !.streak = HabitSummary(habit_entries, 1, StartOfWeek(Today),
                                         EndOfWeek(Today), Today, agg.off).streak]
    /\ UNCHANGED <<cron, now, users, habits, habit_entries, notifications,
                   weekly_summaries, session, reminders, daily, weekly,
                   handler, dailyRuns, weeklyRuns, responses>>

NextAgg == AggGenerate

SpecAgg == InitAgg /\ [][NextAgg]_vars

----------------------------------------------------------------------------
(* The two summaries of one week: habit 1 with every combination of absent, *)
(* completed and not completed entries on the days from the Saturday       *)
(* before the week to its Saturday, habit 2 empty, full or deleted, and    *)
(* the reference date on the Sunday, the Wednesday or the Saturday.        *)

SumDays == (SumWeek * DaysPerWeek - 1)..(SumWeek * DaysPerWeek + 6)

SumRefDates == {SumWeek * DaysPerWeek + p : p \in {0, 3, 6}}

SumIdle ==
    [done |-> "no", off |-> 0, scheduled |-> [null |-> TRUE], onDemand |-> [noHabits |-> TRUE]]

SumEntries(pattern, second) ==
    {[habit_id |-> 1, date |-> d, completed |-> (pattern[d] = "true")] :
        d \in {x \in SumDays : pattern[x] # "absent"}}
    \cup (IF second = "empty" THEN {}
          ELSE {[habit_id |-> 2, date |-> SumWeek * DaysPerWeek + i, completed |-> TRUE] :
                    i \in 0..(DaysPerWeek - 1)})

InitSum ==
    /\ now \in SumRefDates
    /\ users = {[id |-> 1, telegram_id |-> 1, is_active |-> TRUE,
                 notifications_enabled |-> TRUE]}
    /\ \E pattern \in [SumDays -> {"absent", "true", "false"}],
          second \in {"empty", "full", "deleted"}, off \in ProcessZones :
          /\ habits = {[id |-> 1, user_id |-> 1, is_active |-> TRUE],
                       [id |-> 2, user_id |-> 1, is_active |-> (second # "deleted")]}
          /\ habit_entries = SumEntries(pattern, second)
          /\ agg = [SumIdle EXCEPT !.off = off]
    /\ notifications = {}
    /\ weekly_summaries = {}
    /\ session = [c \in AllChats |-> FALSE]
    /\ reminders = [k \in AllChats \X Dates |-> 0]
    /\ daily = DailyIdle
    /\ weekly = WeeklyIdle
    /\ handler = HandlerIdle
    /\ dailyRuns = 0
    /\ weeklyRuns = 0
    /\ responses = 0
    /\ cron = CronIdle

\* generateWeeklySummary(user.id, weekStart, weekEnd) as sendWeeklySummaries calls it
SumGenerate(tg) ==
    /\ agg.done = "no"
    /\ agg' = [agg EXCEPT !.done = "scheduled",
                 !.scheduled = GenerateWeeklySummary(habits, habit_entries,
                                   GetUserByTelegramId(users, tg).id,
                                   StartOfWeek(Today), EndOfWeek(Today), Today, agg.off)]
    /\ UNCHANGED <<cron, now, users, habits, habit_entries, notifications,
                   weekly_summaries, session, reminders, daily, weekly,
                   handler, dailyRuns, weeklyRuns, responses>>

\* /summary
handleSummary(tg) ==
    /\ agg.done = "no"
    /\ GetUserByTelegramId(users, tg) # NoUser
    /\ agg' = [agg EXCEPT !.done = "onDemand",
                 !.onDemand = SummaryReply(habits, habit_entries,
                                  GetUserByTelegramId(users, tg).id, Today, agg.off)]
    /\ UNCHANGED <<cron, now, users, habits, habit_entries, notifications,
                   weekly_summaries, session, reminders, daily, weekly,
                   handler, dailyRuns, weeklyRuns, responses>>

NextSum ==
    \/ \E tg \in Chats : SumGenerate(tg)
    \/ \E tg \in Chats : handleSummary(tg)

SpecSum == InitSum /\ [][NextSum]_vars

----------------------------------------------------------------------------
(* The two classifications of a completion rate: getHabitEmoji of the      *)
(* scheduled summary and statusEmoji of /summary, on every whole rate and  *)
(* the rate one point below it.                                            *)

TierIdle ==
    [done |-> FALSE, rate |-> 0, scheduled |-> 0, scheduledBelow |-> 0,
     onDemand |-> 0, onDemandBelow |-> 0]

InitTier ==
    /\ now = 0
    /\ users = {}
    /\ habits = {}
    /\ habit_entries = {}
    /\ notifications = {}
    /\ weekly_summaries = {}
    /\ session = [c \in AllChats |-> FALSE]
    /\ reminders = [k \in AllChats \X Dates |-> 0]
    /\ daily = DailyIdle
    /\ weekly = WeeklyIdle
    /\ handler = HandlerIdle
    /\ dailyRuns = 0
    /\ weeklyRuns = 0
    /\ responses = 0
    /\ cron = CronIdle
    /\ \E r \in 1..MaxRate : agg = [TierIdle EXCEPT !.rate = r]

\* both presentations classify the rate
TierClassify ==
    /\ ~agg.done
    /\ agg' = [agg EXCEPT !.done = TRUE,
                 !.scheduled = getHabitEmoji(Percent(agg.rate, 100)),
                 !.scheduledBelow = getHabitEmoji(Percent(agg.rate - 1, 100)),
                 !.onDemand = statusEmoji(agg.rate),
                 !.onDemandBelow = statusEmoji(agg.rate - 1)]
    /\ UNCHANGED <<cron, now, users, habits, habit_entries, notifications,
                   weekly_summaries, session, reminders, daily, weekly,
                   handler, dailyRuns, weeklyRuns, responses>>

NextTier == TierClassify

SpecTier == InitTier /\ [][NextTier]_vars

----------------------------------------------------------------------------
(* The scheduler: the wall clock of TIMEZONE in hours, the process stopped  *)
(* by a signal and started again, and the two CronJob timers that live     *)
(* only in the memory of the running process.  No user is registered, so a *)
(* callback that fires lists nobody and writes nothing.                    *)

\* the next occurrence of '0 20 * * *' strictly after the present hour began
NextDaily(day, hour) == IF hour < DailyHour THEN day ELSE day + 1

\* the next occurrence of '0 10 * * 0' strictly after the present hour began
NextWeekly(day, hour) ==
    IF DayOfWeek(day) = WeeklyDay /\ hour < WeeklyHour
    THEN day
    ELSE day + ((WeeklyDay - DayOfWeek(day) + DaysPerWeek - 1) % DaysPerWeek) + 1

DailyDue == cron.dailyNext = now /\ cron.hour = DailyHour

WeeklyDue == cron.weeklyNext = now /\ cron.hour = WeeklyHour

InitCron ==
    /\ now = 0
    /\ users = {}
    /\ habits = {}
    /\ habit_entries = {}
    /\ notifications = {}
    /\ weekly_summaries = {}
    /\ session = [c \in AllChats |-> FALSE]
    /\ reminders = [k \in AllChats \X Dates |-> 0]
    /\ daily = DailyIdle
    /\ weekly = WeeklyIdle
    /\ handler = HandlerIdle
    /\ dailyRuns = 0
    /\ weeklyRuns = 0
    /\ responses = 0
    /\ agg = AggIdle
    /\ cron = CronIdle

\* an hour passes; a running process fires a due timer before that
CronClock ==
    /\ now < MaxCronDay \/ cron.hour < HoursPerDay - 1
    /\ ~(cron.up /\ (DailyDue \/ WeeklyDue))
    /\ now' = IF cron.hour = HoursPerDay - 1 THEN now + 1 ELSE now
    /\ cron' = [cron EXCEPT !.hour = (@ + 1) % HoursPerDay]
    /\ UNCHANGED <<users, habits, habit_entries, notifications,
                   weekly_summaries, session, reminders, daily, weekly,
                   handler, dailyRuns, weeklyRuns, responses, agg>>

\* dailyNotificationJob fires sendDailyNotifications and re-arms
CronDailyTick ==
    /\ cron.up
    /\ DailyDue
    /\ cron' = [cron EXCEPT !.dailyFired[now] = @ + 1, !.dailyNext = now + 1]
    /\ UNCHANGED <<now, users, habits, habit_entries, notifications,
                   weekly_summaries, session, reminders, daily, weekly,
                   handler, dailyRuns, weeklyRuns, responses, agg>>

\* weeklySummaryJob fires sendWeeklySummaries and re-arms
CronWeeklyTick ==
    /\ cron.up
    /\ WeeklyDue
    /\ cron' = [cron EXCEPT !.weeklyFired[now \div DaysPerWeek] = @ + 1,
                            !.weeklyNext = now + DaysPerWeek]
    /\ UNCHANGED <<now, users, habits, habit_entries, notifications,
                   weekly_summaries, session, reminders, daily, weekly,
                   handler, dailyRuns, weeklyRuns, responses, agg>>

\* SIGINT or SIGTERM: bot.stop, closeDatabase, process.exit
ProcessStop ==
    /\ cron.up
    /\ cron' = [cron EXCEPT !.up = FALSE]
    /\ UNCHANGED <<now, users, habits, habit_entries, notifications,
                   weekly_summaries, session, reminders, daily, weekly,
                   handler, dailyRuns, weeklyRuns, responses, agg>>

\* main: setupScheduler creates and starts both jobs from the present time
ProcessStart ==
    /\ ~cron.up
    /\ cron' = [cron EXCEPT !.up = TRUE,
                            !.dailyNext = NextDaily(now, cron.hour),
                            !.weeklyNext = NextWeekly(now, cron.hour)]
    /\ UNCHANGED <<now, users, habits, habit_entries, notifications,
                   weekly_summaries, session, reminders, daily, weekly,
                   handler, dailyRuns, weeklyRuns, responses, agg>>

NextCron ==
    \/ CronClock
    \/ CronDailyTick
    \/ CronWeeklyTick
    \/ ProcessStop
    \/ ProcessStart

SpecCron == InitCron /\ [][NextCron]_vars

----------------------------------------------------------------------------
(* The habit-creation session: prompts, text messages and the ways out.    *)
(* agg keeps what the last update of a chat was and how it ended           *)

SessionIdle ==
    [n |-> 0, last |-> "none", tg |-> 0, length |-> 0,
     prompt |-> [c \in AllChats |-> "none"]]

\* the texts a chat sends: "/cancel", and names at and around the limit
Texts ==
    {[isCancel |-> TRUE, length |-> 7]}
        \cup {[isCancel |-> FALSE, length |-> n] : n \in {1, MaxNameLength, MaxNameLength + 1}}

InitSession ==
    /\ now = 0
    /\ \E registered \in SUBSET AllChats :
          users = {[id |-> c, telegram_id |-> c, is_active |-> TRUE,
                    notifications_enabled |-> TRUE] : c \in registered}
    /\ habits = {}
    /\ habit_entries = {}
    /\ notifications = {}
    /\ weekly_summaries = {}
    /\ session = [c \in AllChats |-> FALSE]
    /\ reminders = [k \in AllChats \X Dates |-> 0]
    /\ daily = DailyIdle
    /\ weekly = WeeklyIdle
    /\ handler = HandlerIdle
    /\ dailyRuns = 0
    /\ weeklyRuns = 0
    /\ responses = 0
    /\ agg = SessionIdle
    /\ cron = CronIdle

SessionUpdate(tg, last, length) ==
    [agg EXCEPT !.n = @ + 1, !.last = last, !.tg = tg, !.length = length]

\* /addhabit: the prompt has no keyboard
AddHabitCommand(tg) ==
    /\ agg.n < MaxMessages
    /\ session' = [session EXCEPT ![tg] = TRUE]
    /\ agg' = [SessionUpdate(tg, "prompt", 0) EXCEPT !.prompt[tg] = "command"]
    /\ UNCHANGED habits
    /\ UNCHANGED <<cron, now, users, habit_entries, notifications, weekly_summaries,
                   reminders, daily, weekly, handler, dailyRuns, weeklyRuns, responses>>

\* the add_habit button: the prompt carries a Cancel button with data main_menu
handleAddHabitCallback(tg) ==
    /\ agg.n < MaxMessages
    /\ session' = [session EXCEPT ![tg] = TRUE]
    /\ agg' = [SessionUpdate(tg, "prompt", 0) EXCEPT !.prompt[tg] = "button"]
    /\ UNCHANGED habits
    /\ UNCHANGED <<cron, now, users, habit_entries, notifications, weekly_summaries,
                   reminders, daily, weekly, handler, dailyRuns, weeklyRuns, responses>>

\* the Cancel button of the prompt is pressed: callback main_menu
handleMainMenu(tg) ==
    /\ agg.n < MaxMessages
    /\ agg.prompt[tg] = "button"
    /\ agg' = SessionUpdate(tg, "cancelButton", 0)
    /\ UNCHANGED <<habits, session>>
    /\ UNCHANGED <<cron, now, users, habit_entries, notifications, weekly_summaries,
                   reminders, daily, weekly, handler, dailyRuns, weeklyRuns, responses>>

NameTooLongAtLimit(length) == length >= MaxNameLength

\* if (habitName.length > 100)
NameTooLong(length) == length > MaxNameLength

\* handleNewHabitName; insertOk is whether createHabit returns or throws
NewHabitName(tg, length, insertOk) ==
    LET user == GetUserByTelegramId(users, tg)
    IN IF user = NoUser
       THEN /\ agg' = SessionUpdate(tg, "rejectedNoUser", length)
            /\ UNCHANGED <<habits, session>>
       ELSE IF NameTooLong(length)
       THEN /\ agg' = SessionUpdate(tg, "rejectedTooLong", length)
            /\ UNCHANGED <<habits, session>>
       ELSE IF ~insertOk
       THEN /\ agg' = SessionUpdate(tg, "rejectedStoreError", length)
            /\ UNCHANGED <<habits, session>>
       ELSE /\ habits' = CreateHabit(habits, user.id)
            /\ session' = [session EXCEPT ![tg] = FALSE]
            /\ agg' = SessionUpdate(tg, "created", length)

\* handleTextMessage for a text that is not a registered command
OnMessageText(tg, text, insertOk) ==
    /\ agg.n < MaxMessages
    /\ Cardinality(habits) < MaxHabits
    /\ IF text.isCancel /\ session[tg]
       THEN /\ session' = [session EXCEPT ![tg] = FALSE]
            /\ agg' = SessionUpdate(tg, "cancelText", text.length)
            /\ UNCHANGED habits
       ELSE IF session[tg]
       THEN NewHabitName(tg, text.length, insertOk)
       ELSE /\ agg' = SessionUpdate(tg, "notUnderstood", text.length)
            /\ UNCHANGED <<habits, session>>
    /\ UNCHANGED <<cron, now, users, habit_entries, notifications, weekly_summaries,
                   reminders, daily, weekly, handler, dailyRuns, weeklyRuns, responses>>

NextSession ==
    \/ \E tg \in AllChats : AddHabitCommand(tg)
    \/ \E tg \in AllChats : handleAddHabitCallback(tg)
    \/ \E tg \in AllChats : handleMainMenu(tg)
    \/ \E tg \in AllChats, text \in Texts, insertOk \in BOOLEAN : OnMessageText(tg, text, insertOk)

SpecSession == InitSession /\ [][NextSession]_vars

----------------------------------------------------------------------------
(* Callbacks that carry a habit id: two registered users with one active   *)
(* habit each, and the id of either habit arriving from either chat (a     *)
(* keyboard shown in a chat both are members of, or a client that sends    *)
(* the data itself).  agg keeps who sent the last delete callback.         *)

OwnIdle == [actor |-> 0, habitId |-> 0]

InitOwn ==
    /\ now = 0
    /\ users = {[id |-> c, telegram_id |-> c, is_active |-> TRUE,
                 notifications_enabled |-> TRUE] : c \in BatchChats}
    /\ habits = {[id |-> c, user_id |-> c, is_active |-> TRUE] : c \in BatchChats}
    /\ habit_entries = {}
    /\ notifications = {}
    /\ weekly_summaries = {}
    /\ session = [c \in AllChats |-> FALSE]
    /\ reminders = [k \in AllChats \X Dates |-> 0]
    /\ daily = DailyIdle
    /\ weekly = WeeklyIdle
    /\ handler = HandlerIdle
    /\ dailyRuns = 0
    /\ weeklyRuns = 0
    /\ responses = 0
    /\ agg = OwnIdle
    /\ cron = CronIdle

\* handleDeleteSpecificHabit for the id the callback data carries
DeleteHabitCallback(tg, hid) ==
    LET user == GetUserByTelegramId(users, tg)
    IN /\ handler.pc = "idle"
       /\ user # NoUser
       /\ GetHabitById(habits, hid) # {}
       /\ habits' = DeleteHabit(habits, hid, user.id)
       /\ agg' = [actor |-> tg, habitId |-> hid]
       /\ UNCHANGED <<cron, now, users, habit_entries, notifications,
                      weekly_summaries, session, reminders, daily,
                      weekly, handler, dailyRuns, weeklyRuns, responses>>

\* handleHabitResponse and handleCheckinHabitResponse for the id the
\* callback data carries; an id of no habit row fails at the insert
HabitCallback(kind, tg, hid, completed) ==
    /\ \E h \in habits : h.id = hid
    /\ BeginResponse(kind, tg, hid, completed)

NextOwn ==
    \/ \E tg \in BatchChats, hid \in BatchChats : DeleteHabitCallback(tg, hid)
    \/ \E kind \in {"habit", "checkin_habit"}, tg \in BatchChats, hid \in BatchChats,
          c \in BOOLEAN : HabitCallback(kind, tg, hid, c)
    \/ ResponseRecord
    \/ ResponseMark
    \/ ResponseReply
    \/ ResponseFail

SpecOwn == InitOwn /\ [][NextOwn]_vars

----------------------------------------------------------------------------
(* Registration: /start from two chats, up to MaxConcurrent invocations of  *)
(* handleStart under way at once, interleaved at their awaits, next to the *)
(* other writer of the users table, the notification toggle.  agg keeps    *)
(* the position of each invocation.                                        *)

StartSlots == 1..MaxConcurrent

StartIdle == [pc |-> "idle", tg |-> 0, found |-> FALSE, outcome |-> "none"]

InitStart ==
    /\ now = 0
    /\ users = {}
    /\ habits = {}
    /\ habit_entries = {}
    /\ notifications = {}
    /\ weekly_summaries = {}
    /\ session = [c \in AllChats |-> FALSE]
    /\ reminders = [k \in AllChats \X Dates |-> 0]
    /\ daily = DailyIdle
    /\ weekly = WeeklyIdle
    /\ handler = HandlerIdle
    /\ dailyRuns = 0
    /\ weeklyRuns = 0
    /\ responses = 0
    /\ agg = [s \in StartSlots |-> StartIdle]
    /\ cron = CronIdle

\* /start arrives
StartBegin(s, tg) ==
    /\ agg[s].pc \in {"idle", "done"}
    /\ agg' = [agg EXCEPT ![s] = [StartIdle EXCEPT !.pc = "getUser", !.tg = tg]]
    /\ UNCHANGED users
    /\ UNCHANGED <<cron, now, habits, habit_entries, notifications, weekly_summaries,
                   session, reminders, daily, weekly, handler, dailyRuns, weeklyRuns,
                   responses>>

\* let user = await userQueries.getUserByTelegramId(telegramId)
StartGetUser(s) ==
    /\ agg[s].pc = "getUser"
    /\ agg' = [agg EXCEPT ![s].pc = "decide",
                          ![s].found = (GetUserByTelegramId(users, agg[s].tg) # NoUser)]
    /\ UNCHANGED users
    /\ UNCHANGED <<cron, now, habits, habit_entries, notifications, weekly_summaries,
                   session, reminders, daily, weekly, handler, dailyRuns, weeklyRuns,
                   responses>>

\* if (!user) createUser and the welcome, else the welcome back; a throwing
\* createUser ends in the catch
StartDecide(s) ==
    /\ agg[s].pc = "decide"
    /\ IF agg[s].found
       THEN /\ agg' = [agg EXCEPT ![s].pc = "done", ![s].outcome = "welcomeBack"]
            /\ UNCHANGED users
       ELSE LET res == InsertUser(users, agg[s].tg)
            IN /\ users' = res.rows
               /\ agg' = [agg EXCEPT ![s].pc = "done",
                                     ![s].outcome = IF res.ok THEN "welcome" ELSE "error"]
    /\ UNCHANGED <<cron, now, habits, habit_entries, notifications, weekly_summaries,
                   session, reminders, daily, weekly, handler, dailyRuns, weeklyRuns,
                   responses>>

\* toggle_notifications, the one statement that updates a users row
StartToggle(tg) ==
    /\ GetUserByTelegramId(users, tg) # NoUser
    /\ users' = UpdateUserNotifications(users, tg,
                    ~GetUserByTelegramId(users, tg).notifications_enabled)
    /\ UNCHANGED agg
    /\ UNCHANGED <<cron, now, habits, habit_entries, notifications, weekly_summaries,
                   session, reminders, daily, weekly, handler, dailyRuns, weeklyRuns,
                   responses>>

NextStart ==
    \/ \E s \in StartSlots, tg \in AllChats : StartBegin(s, tg)
    \/ \E s \in StartSlots : StartGetUser(s)
    \/ \E s \in StartSlots : StartDecide(s)
    \/ \E tg \in AllChats : StartToggle(tg)

SpecStart == InitStart /\ [][NextStart]_vars

----------------------------------------------------------------------------
(* Properties *)

UserOfChat(tg) == GetUserByTelegramId(users, tg)

\* the user has an entry for date d on a habit that is active now
AnyEntryOnActiveHabit(uid, d) ==
    \E h \in habits, e \in habit_entries :
        h.user_id = uid /\ h.is_active /\ e.habit_id = h.id /\ e.date = d

DispatchEndsUntouched ==
    /\ daily'.pc = "pace"
    /\ notifications' = notifications
    /\ reminders' = reminders

\* C1: for every user and every date at most one reminder message is sent,
\* over any sequence of daily runs, two runs on one date included.
C1_AtMostOneReminderPerDay ==
    \A k \in Chats \X Dates : reminders[k] <= 1

\* C2: when the dispatch runs its already-checked-in query for a user who has
\* an entry for today on an active habit, it ends there: no Notification row
\* is created or marked and no reminder is sent, even if another active habit
\* has no entry for today.
C2_Suppression ==
    [][(/\ daily.pc = "check"
        /\ daily' # daily
        /\ AnyEntryOnActiveHabit(daily.uid, now))
       => DispatchEndsUntouched]_vars

C2_Witness ==
    /\ daily.pc = "pace"
    /\ daily.outcome = "suppressed"
    /\ \E h1, h2 \in GetUserHabits(habits, UserOfChat(daily.tg).id) :
          /\ \E e \in habit_entries : e.habit_id = h1.id /\ e.date = now
          /\ ~\E e \in habit_entries : e.habit_id = h2.id /\ e.date = now

\* C3: a reminder is never sent for a date to a user who, at the moment of the
\* send, already has an entry for that date on an active habit (a response
\* committed after the dispatch's query still suppresses).
C3_LateResponseSuppresses ==
    [][\A k \in Chats \X Dates :
          reminders'[k] > reminders[k]
              => ~AnyEntryOnActiveHabit(UserOfChat(k[1]).id, k[2])]_vars

\* C4: a dispatch for a chat that has no user row or whose user has
\* notifications disabled, or for a user without an active habit, ends at
\* that check: no Notification row is created or modified, no message sent.
C4_PreCheck ==
    [][/\ (/\ daily.pc = "getUser"
           /\ daily' # daily
           /\ \A u \in users : u.telegram_id = daily.tg => ~u.notifications_enabled)
          => DispatchEndsUntouched
       /\ (/\ daily.pc = "getHabits"
           /\ daily' # daily
           /\ ~\E h \in habits : h.user_id = daily.uid /\ h.is_active)
          => DispatchEndsUntouched]_vars

C4_Witness ==
    /\ daily.pc = "pace"
    /\ daily.outcome = "skipped"
    /\ UserOfChat(daily.tg) # NoUser
    /\ ~UserOfChat(daily.tg).notifications_enabled
    /\ GetUserHabits(habits, UserOfChat(daily.tg).id) # {}
    /\ notifications = {}

\* C5: every response recording leaves exactly one entry for its (habit,
\* date), holding the value just recorded, whether or not a row existed.
C5_UpsertLastWriteWins ==
    [][(handler.pc = "record" /\ handler'.pc = "mark")
       => LET rows == {e \in habit_entries' :
                          e.habit_id = handler.habitId /\ e.date = handler.today}
          IN /\ Cardinality(rows) = 1
             /\ \A e \in rows : e.completed = handler.completed
             /\ \A e \in habit_entries' \ rows : e \in habit_entries]_vars

C5_Witness ==
    /\ handler.pc = "mark"
    /\ handler.replaced
    /\ Cardinality({e \in habit_entries : e.habit_id = handler.habitId
                                          /\ e.date = handler.today}) = 1

\* C6: once a response has been recorded and the handler has marked the day,
\* a Notification row for (user, date) exists with responded = true.
C6_RespondedRowExists ==
    handler.pc = "reply"
        => \E n \in notifications :
              n.user_id = handler.uid /\ n.date = handler.today /\ n.responded

\* C7: at most one HabitEntry per (habit, date), one Notification per
\* (user, date) and one WeeklySummary per (user, week_start), in every state
\* of the cycles racing the response handlers.
C7_OneRowPerKey ==
    /\ \A e1, e2 \in habit_entries :
          (e1.habit_id = e2.habit_id /\ e1.date = e2.date) => e1 = e2
    /\ \A n1, n2 \in notifications :
          (n1.user_id = n2.user_id /\ n1.date = n2.date) => n1 = n2
    /\ \A w1, w2 \in weekly_summaries :
          (w1.user_id = w2.user_id /\ w1.week_start = w2.week_start) => w1 = w2

C7_Witness ==
    /\ \E n \in notifications : n.sent /\ n.responded
    /\ weekly_summaries # {}
    /\ dailyRuns = MaxDailyRuns
    /\ \E e \in habit_entries : ~e.completed

\* C8: an entry is created or overwritten only for a habit that is active at
\* the time of the write.
C8_WritesOnlyActiveHabits ==
    [][habit_entries' # habit_entries
       => \E h \in habits : h.id = handler.habitId /\ h.is_active]_vars

\* C9: a Notification row with responded = true has an entry of that user
\* for that date behind it.
C9_RespondedImpliesEntry ==
    \A n \in notifications :
        n.responded
            => \E h \in habits, e \in habit_entries :
                  h.user_id = n.user_id /\ e.habit_id = h.id /\ e.date = n.date

C9_Witness ==
    \E n \in notifications : n.responded /\ n.sent

\* C10: with entries completed on exactly the k days ending at the reference
\* date, the reported streak is min(k, 30), wherever the reference date lies
\* in its week.
C10_StreakIsMinKHorizon ==
    agg.done => agg.streak = Min(agg.k, StreakHorizon)

\* the rows of a habit whose date lies in the window the store applies for
\* [weekStart, weekEnd]
RowsInWindow(hid, weekStart, weekEnd, off) ==
    {e \in habit_entries :
        /\ e.habit_id = hid
        /\ e.date \in PgDate(weekStart, off)..PgDate(weekEnd, off)}

\* the number of consecutive days, ending at `ref`, with a completed entry
RECURSIVE RunLength(_, _, _)
RunLength(hid, ref, left) ==
    IF left = 0 \/ ~\E e \in habit_entries : e.habit_id = hid /\ e.date = ref /\ e.completed
    THEN 0
    ELSE 1 + RunLength(hid, ref - 1, left - 1)

C12_FixedSevenDenominator ==
    (agg.done = "scheduled" /\ ~agg.scheduled.null)
        => LET data == agg.scheduled.data
               Completed(hid) ==
                   Cardinality({e \in RowsInWindow(hid, StartOfWeek(now), EndOfWeek(now),
                                                   agg.off) : e.completed})
               active == {h.id : h \in {x \in habits : x.user_id = 1 /\ x.is_active}}
           IN /\ {data.habits[i].habit_id : i \in 1..Len(data.habits)} = active
              /\ Len(data.habits) = Cardinality(active)
              /\ \A i \in 1..Len(data.habits) :
                    LET hs == data.habits[i]
                    IN /\ hs.completedDays = Completed(hs.habit_id)
                       /\ hs.totalDays = 7
                       /\ hs.completionRate.den > 0
                       /\ hs.completionRate.num * 7
                              = Completed(hs.habit_id) * 100 * hs.completionRate.den
              /\ data.overallCompletion.den > 0
              /\ data.overallCompletion.num * (7 * Cardinality(active))
                     = SumField([i \in 1..Len(data.habits) |->
                                    [n |-> Completed(data.habits[i].habit_id)]], "n")
                           * 100 * data.overallCompletion.den

C12_Witness ==
    /\ agg.done = "scheduled"
    /\ ~agg.scheduled.null
    /\ Len(agg.scheduled.data.habits) = 2
    /\ agg.scheduled.data.habits[1].completedDays = 5
    /\ Cardinality({e \in habit_entries : e.habit_id = 1}) = 6
    /\ agg.scheduled.data.habits[1].completionRate = [num |-> 500, den |-> 7]
    /\ agg.scheduled.data.habits[2].completionRate = [num |-> 700, den |-> 7]
    /\ agg.scheduled.data.overallCompletion = [num |-> 1200, den |-> 14]

C14_SameBandBoundaries ==
    agg.done => ((agg.scheduled # agg.scheduledBelow) <=> (agg.onDemand # agg.onDemandBelow))

\* C15: in a daily run and in a weekly run no step of one user's processing,
\* a store or gateway error included, ends the run or changes the list of
\* users still to come; after each user the run goes on with the next
\* listed user and ends only when the list is used up.
C15_FailureIsolation ==
    [][/\ (daily.pc # "idle" /\ daily' # daily)
          => IF daily.pc = "pace"
             THEN IF daily.queue = <<>>
                  THEN daily'.pc = "idle"
                  ELSE /\ daily'.pc = "getUser"
                       /\ daily'.tg = Head(daily.queue)
                       /\ daily'.queue = Tail(daily.queue)
             ELSE /\ daily'.pc # "idle"
                  /\ daily'.queue = daily.queue
                  /\ daily'.tg = daily.tg
       /\ (weekly.pc # "idle" /\ weekly' # weekly)
          => IF weekly.pc = "pace"
             THEN IF weekly.queue = <<>>
                  THEN weekly'.pc = "idle"
                  ELSE /\ weekly'.pc = "genHabits"
                       /\ weekly'.tg = Head(weekly.queue)
                       /\ weekly'.queue = Tail(weekly.queue)
             ELSE /\ weekly'.pc # "idle"
                  /\ weekly'.queue = weekly.queue
                  /\ weekly'.tg = weekly.tg]_vars

C15_Witness ==
    /\ daily.failed # {}
    /\ daily.tg \notin daily.failed
    /\ daily.pc = "send"
    /\ weekly.errors > 0
    /\ weekly.pc = "sendSummary"

\* C16: every dispatch of a daily run that hits a store or gateway error adds
\* one to the run's failure counter and nothing to its success counter.
C16_FailuresCounted ==
    [][(daily'.pc = "pace" /\ daily'.failed # daily.failed)
       => /\ daily'.errors = daily.errors + 1
          /\ daily'.success = daily.success]_vars

\* C18: a weekly summary message is handed to the gateway only for a user
\* whose WeeklySummary row of this week holds the summary just computed; a
\* failed upsert ends the user's turn without a message; a user without an
\* active habit gets no row and no message.
C18_RowBeforeMessage ==
    [][/\ (weekly.pc # "pace" /\ weekly'.pc = "pace"
              /\ weekly'.outcome \in {"sent", "sendError"})
          => /\ weekly.pc = "sendSummary"
             /\ \E w \in weekly_summaries :
                   /\ w.user_id = weekly.uid
                   /\ w.week_start = PgDate(weekly.weekStart, weekly.off)
                   /\ w.summary_data = WeeklySummaryData(weekly.acc)
       /\ (weekly.pc = "createSummary" /\ weekly'.pc # "sendSummary" /\ weekly' # weekly)
          => /\ weekly'.pc = "pace"
             /\ weekly'.outcome = "error"
       /\ (weekly.pc = "genHabits" /\ weekly' # weekly
              /\ ~\E h \in habits : h.user_id = weekly.uid /\ h.is_active)
          => /\ weekly'.pc = "pace"
             /\ weekly'.outcome = "null"
             /\ weekly_summaries' = weekly_summaries]_vars

C18_Witness ==
    /\ weekly.pc = "pace"
    /\ weekly.outcome = "sent"
    /\ weekly.queue = <<>>
    /\ \E w \in weekly_summaries : w.user_id = UserOfChat(weekly.tg).id
    /\ \E u \in users :
          /\ u.telegram_id # weekly.tg
          /\ GetUserHabits(habits, u.id) = {}
          /\ ~\E w \in weekly_summaries : w.user_id = u.id

\* C17: every weekly run's upsert leaves exactly one WeeklySummary row for
\* the user and the week, and that row holds the summary this run computed,
\* whether or not an earlier run of the week had written one.
C17_RerunOverwrites ==
    [][(weekly.pc = "createSummary" /\ weekly'.pc = "sendSummary")
       => LET rows == {w \in weekly_summaries' :
                          /\ w.user_id = weekly.uid
                          /\ w.week_start = PgDate(weekly.weekStart, weekly.off)}
          IN /\ Cardinality(rows) = 1
             /\ \A w \in rows : w.summary_data = WeeklySummaryData(weekly.acc)
             /\ {w \in weekly_summaries' : w.user_id = weekly.uid} = rows]_vars

C17_Witness ==
    /\ weeklyRuns = MaxWeeklyRuns
    /\ weekly.pc = "sendSummary"
    /\ weekly.replaced
    /\ Cardinality(weekly_summaries) = 1

\* C19: whatever stops and restarts the process goes through, the daily
\* callback has fired exactly once for every day whose trigger hour is over
\* and the weekly callback exactly once for every week whose trigger hour is
\* over, and neither has fired twice for a day or a week.
C19_ExactlyOncePerPeriod ==
    /\ \A d \in CronDays :
          /\ cron.dailyFired[d] <= 1
          /\ (d < now \/ (d = now /\ cron.hour > DailyHour)) => cron.dailyFired[d] = 1
    /\ \A w \in CronWeeks :
          /\ cron.weeklyFired[w] <= 1
          /\ (\/ w * DaysPerWeek + WeeklyDay < now
              \/ (w * DaysPerWeek + WeeklyDay = now /\ cron.hour > WeeklyHour))
             => cron.weeklyFired[w] = 1

C21_NoReminderWhileOff ==
    [][/\ \A u \in users :
             \E v \in users' :
                /\ v.telegram_id = u.telegram_id
                /\ (v # u) => (v.notifications_enabled = ~u.notifications_enabled)
       /\ (daily.pc = "getUser" /\ daily' # daily)
             => IF UserOfChat(daily.tg).notifications_enabled
                THEN reminders' = reminders
                ELSE /\ daily'.pc = "pace"
                     /\ daily'.outcome \in {"skipped", "error"}
                     /\ reminders' = reminders
                     /\ notifications' = notifications
       /\ (reminders' # reminders)
             => /\ daily.pc = "send"
                /\ \A k \in DOMAIN reminders :
                      reminders'[k] # reminders[k] => k[1] = daily.tg]_vars

C21_Witness ==
    /\ now = 1
    /\ daily.pc = "pace"
    /\ daily.outcome = "skipped"
    /\ ~UserOfChat(daily.tg).notifications_enabled
    /\ GetUserHabits(habits, UserOfChat(daily.tg).id) # {}
    /\ reminders[<<daily.tg, 0>>] = 1
    /\ reminders[<<daily.tg, 1>>] = 0

\* C22: in the scheduled summary and in the /summary reply, a day of the
\* week window without an entry for a habit gives that habit the same
\* completion rate as an entry recorded as not completed on that day.
C22_MissingCountsAsNo ==
    /\ agg.done = "scheduled"
          => \A d \in PgDate(StartOfWeek(now), agg.off)..PgDate(EndOfWeek(now), agg.off) :
                (~\E e \in habit_entries : e.habit_id = 1 /\ e.date = d)
                   => HabitSummary(habit_entries
                                      \cup {[habit_id |-> 1, date |-> d, completed |-> FALSE]},
                                   1, StartOfWeek(now), EndOfWeek(now), now,
                                   agg.off).completionRate
                         = agg.scheduled.data.habits[1].completionRate
    /\ agg.done = "onDemand"
          => \A d \in PgDate(StartOfIsoWeek(now), agg.off)..PgDate(EndOfIsoWeek(now), agg.off) :
                (~\E e \in habit_entries : e.habit_id = 1 /\ e.date = d)
                   => SummaryLine(habit_entries
                                     \cup {[habit_id |-> 1, date |-> d, completed |-> FALSE]},
                                  1, StartOfIsoWeek(now), EndOfIsoWeek(now),
                                  agg.off).percentage
                         = agg.onDemand.habits[1].percentage

\* C23: the summary the weekly cycle computes on a Sunday counts, for every
\* habit, each completed entry of the six days before that Sunday.
C23_SundaySummaryCoversPastWeek ==
    (agg.done = "scheduled" /\ DayOfWeek(now) = WeeklyDay)
        => \A i \in 1..Len(agg.scheduled.data.habits) :
              LET hs == agg.scheduled.data.habits[i]
              IN hs.completedDays >=
                     Cardinality({e \in habit_entries :
                                     /\ e.habit_id = hs.habit_id
                                     /\ e.completed
                                     /\ e.date \in (now - 6)..(now - 1)})

\* the step that follows each step of sendDailyCheckIn when it does not return
DispatchSuccessor(pc) ==
    CASE pc = "getUser" -> "getHabits"
      [] pc = "getHabits" -> "check"
      [] pc = "check" -> "create"
      [] pc = "create" -> "markSent"
      [] pc = "markSent" -> "send"
      [] OTHER -> "pace"

\* C24: a dispatch takes its steps in the order user check, habit list,
\* already-checked-in query, Notification upsert, mark sent, send; when the
\* message is sent the Notification row of (user, today) exists with sent =
\* true, and the message is built from the list of all the user's active
\* habits as read by the dispatch.
C24_DispatchOrder ==
    [][/\ (daily.pc \in {"getUser", "getHabits", "check", "create", "markSent", "send"}
              /\ daily' # daily)
             => daily'.pc \in {DispatchSuccessor(daily.pc), "pace"}
       /\ (daily.pc = "getHabits" /\ daily'.pc = "check")
             => daily'.habits = {h.id : h \in {x \in habits :
                                                  x.user_id = daily.uid /\ x.is_active}}
       /\ (daily.pc \in {"check", "create", "markSent"} /\ daily'.pc # "pace")
             => daily'.habits = daily.habits
       /\ (reminders' # reminders)
             => /\ daily.pc = "send"
                /\ daily.habits # {}
                /\ \E n \in notifications :
                      /\ n.user_id = daily.uid
                      /\ n.date \in StoredDates(daily.today)
                      /\ n.sent]_vars

C24_Witness ==
    /\ daily.pc = "pace"
    /\ daily.outcome = "sent"
    /\ reminders[<<daily.tg, now>>] = 1
    /\ \E n \in notifications :
          n.user_id = UserOfChat(daily.tg).id /\ n.date = now /\ n.sent /\ ~n.responded

\* C25: a Notification row appears only at the dispatch's upsert, for the
\* user being dispatched; the response handlers never add a row; no step
\* removes one.
C25_RowsOnlyFromDispatch ==
    [][/\ \A n \in notifications :
             \E m \in notifications' : m.user_id = n.user_id /\ m.date = n.date
       /\ \A m \in notifications' :
             (~\E n \in notifications : n.user_id = m.user_id /\ n.date = m.date)
                => /\ daily.pc = "create"
                   /\ daily'.pc = "markSent"
                   /\ m.user_id = daily.uid
       /\ (handler' # handler)
             => Cardinality(notifications') = Cardinality(notifications)]_vars

C25_Witness ==
    /\ handler.pc = "reply"
    /\ \E n \in notifications :
          n.user_id = handler.uid /\ n.date = handler.today /\ n.sent /\ n.responded
    /\ Cardinality(notifications) = 1
    /\ responses = MaxResponses

\* C26: once no dispatch is in flight for the user, a Notification row with
\* sent = true means a reminder for that date was handed to the gateway for
\* that user.
C26_SentMeansDelivered ==
    \A n \in notifications, u \in users :
        (/\ n.user_id = u.id
         /\ n.sent
         /\ ~(daily.pc = "send" /\ daily.uid = u.id))
            => \E d \in Dates : n.date \in StoredDates(d) /\ reminders[<<u.telegram_id, d>>] > 0

\* C27: within a daily run no user is dispatched twice: the user in
\* dispatch and the users still listed are distinct and none of them has
\* failed in this run, and a user whose dispatch failed gets no reminder
\* while the run lasts.
C27_NoRetry ==
    [][/\ (daily'.pc \notin {"idle", "pace"})
             => /\ daily'.tg \notin daily'.failed
                /\ \A i \in 1..Len(daily'.queue) :
                      /\ daily'.queue[i] \notin daily'.failed
                      /\ daily'.queue[i] # daily'.tg
                      /\ \A j \in 1..Len(daily'.queue) :
                            i # j => daily'.queue[i] # daily'.queue[j]
       /\ \A k \in DOMAIN reminders :
             reminders'[k] # reminders[k] => k[1] \notin daily.failed]_vars

C27_Witness ==
    /\ daily.pc = "pace"
    /\ daily.queue = <<>>
    /\ daily.outcome = "sent"
    /\ daily.failed # {}
    /\ \A c \in daily.failed : reminders[<<c, now>>] = 0
    /\ reminders[<<daily.tg, now>>] = 1

\* C28: in a daily and in a weekly run the processing of a user begins only
\* at the start of the run or when the pacing delay after the previous user
\* has elapsed.
C28_OneUserAtATime ==
    [][/\ (daily'.pc = "getUser" /\ daily' # daily)
             => \/ daily.pc = "idle"
                \/ daily.pc = "pace" /\ daily.queue # <<>>
       /\ (daily' # daily /\ daily'.tg # daily.tg)
             => daily.pc \in {"idle", "pace"}
       /\ (weekly'.pc = "genHabits" /\ weekly' # weekly)
             => \/ weekly.pc = "idle"
                \/ weekly.pc = "pace" /\ weekly.queue # <<>>
       /\ (weekly' # weekly /\ weekly'.tg # weekly.tg)
             => weekly.pc \in {"idle", "pace"}]_vars

C28_Witness ==
    /\ daily.pc = "getUser"
    /\ daily.queue = <<>>
    /\ \E c \in BatchChats : c # daily.tg /\ reminders[<<c, now>>] = 1
    /\ weekly.pc = "genHabits"
    /\ weekly.queue = <<>>
    /\ weekly.success = 1

\* C29: no two orchestrator runs are in progress at the same time.
C29_RunsSequential ==
    ~(daily.pc # "idle" /\ weekly.pc # "idle")

\* C30: a daily run in progress always comes to its end, whatever calls of
\* its dispatches fail; a run whose listing fails, or lists nobody, is over
\* at once with no reminder sent and no Notification row written.
C30_DailyRunTerminates ==
    /\ (daily.pc # "idle") ~> (daily.pc = "idle")
    /\ [][(dailyRuns' # dailyRuns /\ daily'.pc = "idle")
             => (reminders' = reminders /\ notifications' = notifications)]_vars

C30_Witness ==
    /\ daily.pc = "idle"
    /\ dailyRuns = MaxDailyRuns
    /\ \E c \in BatchChats : reminders[<<c, now>>] = 1
    /\ \E c \in BatchChats :
          /\ reminders[<<c, now>>] = 0
          /\ \E h \in habits : h.user_id = UserOfChat(c).id /\ h.is_active

\* C31: a response whose HabitEntry upsert fails ends there: no entry is
\* created or changed, the Notification row is not marked and the handler
\* does not come to its confirmation; the marking and the confirmation are
\* reached only past a written entry, so a row is never marked responded by
\* a response that wrote no entry.
C31_FailedUpsertWritesNothing ==
    [][/\ (handler.pc = "record" /\ handler'.pc # "mark" /\ handler' # handler)
             => /\ handler' = HandlerIdle
                /\ habit_entries' = habit_entries
                /\ notifications' = notifications
       /\ (handler'.pc = "mark" /\ handler' # handler)
             => /\ handler.pc = "record"
                /\ \E e \in habit_entries' :
                      /\ e.habit_id = handler.habitId
                      /\ e.date \in StoredDates(handler.today)
                      /\ e.completed = handler.completed
       /\ (handler'.pc = "reply" /\ handler' # handler) => handler.pc = "mark"
       /\ (habit_entries' # habit_entries) => (handler.pc = "record" /\ handler'.pc = "mark")
       /\ \A n \in notifications' :
             (n.responded /\ [n EXCEPT !.responded = FALSE] \in notifications)
                => /\ handler.pc = "mark"
                   /\ n.user_id = handler.uid
                   /\ \E e \in habit_entries :
                         e.habit_id = handler.habitId /\ e.date = n.date]_vars

C31_Witness ==
    /\ handler.pc = "idle"
    /\ responses = 1
    /\ habit_entries = {}
    /\ \E n \in notifications : n.sent /\ ~n.responded

\* C32: the reply to a check-in response says that the user has checked in
\* for all habits today only if every active habit of the user has an entry
\* for today, and otherwise asks to continue with the remaining habits.
C32_AllMessageMeansAll ==
    (handler.pc = "reply" /\ handler.kind = "checkin_habit")
        => (CheckinReplyMessage = "checkedInAll"
              <=> \A h \in habits :
                     (h.user_id = handler.uid /\ h.is_active)
                        => \E e \in habit_entries :
                              e.habit_id = h.id /\ e.date \in StoredDates(handler.today))

\* C33: on every step each Notification row keeps its key, a sent flag that
\* is true stays true and a responded flag that is true stays true, the
\* upsert of a later dispatch for the same user and date included.
C33_FlagsMonotonic ==
    [][\A n \in notifications :
          \E m \in notifications' :
              /\ m.user_id = n.user_id
              /\ m.date = n.date
              /\ (n.sent => m.sent)
              /\ (n.responded => m.responded)]_vars

C33_Witness ==
    /\ daily.pc = "markSent"
    /\ dailyRuns = MaxDailyRuns
    /\ handler.pc = "idle"
    /\ responses = 1
    /\ \E n \in notifications :
          n.user_id = daily.uid /\ n.date \in StoredDates(daily.today) /\ n.sent /\ n.responded

C35_FlagClearedAfterCancel ==
    (agg.last \in {"created", "cancelText", "cancelButton"}) => ~session[agg.tg]

C37_WritesStayWithOwner ==
    [][/\ \A h \in habits :
             (h \notin habits') => h.user_id = UserOfChat(agg'.actor).id
       /\ \A e \in habit_entries' :
             (e \notin habit_entries)
                => \E h \in habits : h.id = e.habit_id /\ h.user_id = handler.uid]_vars

\* C38: there is never more than one user row per telegram_id, a chat whose
\* /start ended in the welcome or the welcome back has its row, /start of a
\* chat that has a row adds none, and no step removes a user row or sets
\* its is_active to false, two /start of one chat under way at once
\* included.
C38_OneUserPerChat ==
    /\ [](/\ \A u, v \in users : u.telegram_id = v.telegram_id => u = v
          /\ \A u \in users : u.is_active
          /\ \A s \in StartSlots :
                agg[s].outcome \in {"welcome", "welcomeBack"}
                   => \E u \in users : u.telegram_id = agg[s].tg)
    /\ [][/\ \A u \in users :
                \E v \in users' :
                    v.id = u.id /\ v.telegram_id = u.telegram_id /\ v.is_active
          /\ \A v \in users' :
                (~\E u \in users : u.id = v.id)
                   => ~\E u \in users : u.telegram_id = v.telegram_id]_vars

C38_Witness ==
    /\ \E s, t \in StartSlots :
          /\ s # t
          /\ agg[s].pc = "done"
          /\ agg[t].pc = "done"
          /\ agg[s].tg = agg[t].tg
          /\ agg[s].outcome = "welcome"
          /\ agg[t].outcome = "error"
          /\ Cardinality({u \in users : u.telegram_id = agg[s].tg}) = 1
    /\ Cardinality(users) = NumBatchUsers

====
